---- MODULE Spec2Model ----
(***************************************************************************)
(* Model of s3_loader.S3_Loader: the polling loop (run), the batch         *)
(* selection (make_filelist), the bucket naming (make_bucket_name), the    *)
(* bucket resolution (s3_get_bucket) and the per-file upload/delete loop   *)
(* (upload_and_delete_files), together with the spool directory, its       *)
(* producer and the object store they talk to.                             *)
(*                                                                         *)
(* A spool file is a natural number n; it stands for a file name whose     *)
(* position in the sorted directory listing is n's position among the      *)
(* naturals (names embed zero-padded timestamps and sequence numbers).     *)
(***************************************************************************)
EXTENDS Naturals, Integers, Sequences, FiniteSets, TLC

\* ---- bounds of the model ------------------------------------------------
MaxProduced == 3        \* files the producer creates in one behaviour
MaxFilesCfg == 3        \* max_files is configured in 1..MaxFilesCfg
MaxSizeCfg  == 4        \* max_size is configured in MaxSizeCfg-1..MaxSizeCfg
MaxFileSize == 3        \* a file is 1 or MaxFileSize bytes long
MaxRestarts == 1        \* times the supervisor restarts the process

\* ---- program constants --------------------------------------------------
MaxBucketPolls == 10    \* while i<10 in s3_get_bucket
upload_prefix  == "myprefix"

VARIABLES
    max_files,      \* self.max_files
    max_size,       \* self.max_size
    spool,          \* the spool directory: file -> size in bytes
    produced,       \* number of files the producer has created so far
    visible,        \* buckets conn.lookup reports as existing
    pending,        \* buckets created but not yet reported by conn.lookup
    remote,         \* objects in the store: set of <<bucket name, file>>
    pc,             \* position of the uploader process
    files,          \* run: listing taken by get_dir_contents (names)
    sizes,          \* run: listing taken by get_dir_contents (sizes)
    filelist,       \* upload_and_delete_files: the batch
    bucket_name,    \* upload_and_delete_files: the resolved bucket's name
    i,              \* s3_get_bucket: poll counter
    idx,            \* upload_and_delete_files: position of the for loop
    err,            \* exception that ended the process ("none" while alive)
    \* ---- history (observations, not program state) ----
    issued,         \* upload calls of the current cycle: [file, headers, ok]
    unlinked,       \* files the current cycle deleted
    unconfirmed,    \* the current cycle's bucket was absent in all polls
    failedAt,       \* loop position whose upload failed in this cycle, or 0
    cycles,         \* cycles started since the last directory listing
    resumed,        \* the previous run of the process died inside a cycle
    restarts,       \* number of restarts so far
    putCount,       \* file -> number of confirmed uploads over all cycles
    delCount,       \* file -> number of successful deletions over all cycles
    \* ---- the metadata-aware loader ----
    variant,        \* class of the loader: "s3" (S3_Loader) or "liveweb"
    headers,        \* headers computed for the batch (format_metadata)
    \* ---- a second uploader process on the same directory and store ----
    pc2,            \* its position ("off" when there is no second process)
    files2,         \* its listing (names)
    sizes2,         \* its listing (sizes)
    filelist2,      \* its batch
    bucket_name2,   \* its bucket's name
    i2,             \* its poll counter
    idx2,           \* its for loop position
    issued2,        \* history: its upload calls of the current cycle
    unlinked2       \* history: files its current cycle deleted

vars == <<max_files, max_size, spool, produced, visible, pending, remote, pc,
          files, sizes, filelist, bucket_name, i, idx, err, issued, unlinked,
          unconfirmed, failedAt, cycles, resumed, restarts, putCount,
          delCount, variant, headers, pc2, files2, sizes2, filelist2,
          bucket_name2, i2, idx2, issued2, unlinked2>>

config   == <<max_files, max_size>>
store    == <<visible, pending, remote>>
listing  == <<files, sizes>>
cycleObs == <<issued, unlinked, unconfirmed, failedAt>>
totals   == <<restarts, putCount, delCount>>
proc1    == <<pc, listing, filelist, bucket_name, i, idx, err, cycleObs,
              cycles, resumed, headers>>
inst2    == <<pc2, files2, sizes2, filelist2, bucket_name2, i2, idx2, issued2,
              unlinked2>>

NoBucket == ""
AllFiles == 1..MaxProduced

\* ---- helpers ------------------------------------------------------------
Min(a, b) == IF a <= b THEN a ELSE b

RECURSIVE SeqSum(_)
SeqSum(s) == IF s = <<>> THEN 0 ELSE Head(s) + SeqSum(Tail(s))

Last(s) == s[Len(s)]

Range(s) == {s[k] : k \in 1..Len(s)}

SetMin(S) == CHOOSE x \in S : \A y \in S : x <= y

SetMax(S) == CHOOSE x \in S : \A y \in S : x >= y

\* Variant of SortedSeq: the listing comes in descending order.
RECURSIVE SortedSeq_Desc(_)
SortedSeq_Desc(S) == IF S = {} THEN <<>>
                     ELSE <<SetMax(S)>> \o SortedSeq_Desc(S \ {SetMax(S)})

RECURSIVE SortedSeq(_)
SortedSeq(S) == IF S = {} THEN <<>>
                ELSE <<SetMin(S)>> \o SortedSeq(S \ {SetMin(S)})

\* ---- get_dir_contents ---------------------------------------------------
get_dir_contents ==
    LET fs == SortedSeq(DOMAIN spool)
    IN  [files |-> fs, sizes |-> [k \in 1..Len(fs) |-> spool[fs[k]]]]

\* ---- make_filelist ------------------------------------------------------
\* The for loop of make_filelist from position k on. upload_size is the
\* local of that name: the loop reads it and never assigns it. The result is
\* the returned list, or raised = TRUE where the loop reaches a.pop() (the
\* name a is not defined).
RECURSIVE filelist_loop(_, _, _, _, _)
filelist_loop(fs, szs, k, acc, upload_size) ==
    IF k > Min(Len(fs), Len(szs))
    THEN [filelist |-> acc, raised |-> FALSE]
    ELSE LET fl == Append(acc, fs[k])
         IN  IF Len(fl) = max_files
             THEN [filelist |-> fl, raised |-> FALSE]
             ELSE IF upload_size >= max_size
                  THEN IF Len(fl) > 1
                       THEN [filelist |-> fl, raised |-> TRUE]
                       ELSE [filelist |-> fl, raised |-> FALSE]
                  ELSE filelist_loop(fs, szs, k + 1, fl, upload_size)

make_filelist(fs, szs) == filelist_loop(fs, szs, 1, <<>>, 0)

\* ---- get_seq_num, get_timestamp, make_bucket_name -----------------------
\* File n (n <= 9) is named crawl-<Timestamp(n)>-<SeqNum(n)>.warc.gz when
\* NameMatches(n): crawl-20230101000000-00001.warc.gz,
\* crawl-20230101000100-00002.warc.gz, ... Otherwise its name is one the
\* pattern rejects (no sequence number) and Ctime(n) is its creation time as
\* strftime('%Y%m%d%H%M%S%f') prints it: 14 digits to the second, then the
\* first three and the last three digits of the microseconds.
NameMatches(n) == n % 5 # 0
Timestamp(n)   == "20230101000" \o ToString(n - 1) \o "00"
SeqNum(n)      == "0000" \o ToString(n)
Ctime(n)       == <<"20230101000" \o ToString(n - 1) \o "30", "123", "456">>

get_seq_num(file) == IF NameMatches(file) THEN SeqNum(file) ELSE "00000"

\* The fallback keeps the first 17 characters of the 20 of the stamp.
get_timestamp(file) ==
    IF NameMatches(file) THEN Timestamp(file)
    ELSE Ctime(file)[1] \o Ctime(file)[2]

\* Variant of make_bucket_name: the sequence number is taken from the
\* second file of the batch (the first of its middle files).
make_bucket_name_Second(fl) ==
    upload_prefix \o "-" \o get_timestamp(fl[1]) \o "-"
        \o get_seq_num(fl[Min(2, Len(fl))]) \o "-" \o get_timestamp(Last(fl))

\* Variant of make_bucket_name: the sequence number is taken from the last
\* file of the batch.
make_bucket_name_LastSeq(fl) ==
    upload_prefix \o "-" \o get_timestamp(fl[1]) \o "-"
        \o get_seq_num(Last(fl)) \o "-" \o get_timestamp(Last(fl))

make_bucket_name(fl) ==
    LET first_seq_num   == get_seq_num(fl[1])
        first_timestamp == get_timestamp(fl[1])
        last_timestamp  == get_timestamp(Last(fl))
    IN  upload_prefix \o "-" \o first_timestamp \o "-" \o first_seq_num
            \o "-" \o last_timestamp

\* ---- the object store ---------------------------------------------------
lookup(name) == name \in visible                  \* conn.lookup is not None

\* Variant of get_key: the existence check always answers None.
get_key_Never(name, file) == FALSE

\* Variant of get_key: the file is looked for in every bucket of the store.
get_key_AnyBucket(name, file) == \E o \in remote : o[2] = file

get_key(name, file) == <<name, file>> \in remote  \* bucket.get_key is not None


\* ---- s3_upload_file -----------------------------------------------------
\* The headers s3_upload_file sends with the PUT of a file.
s3_upload_headers(no_derive) ==
    IF no_derive THEN {<<"x-archive-queue-derive", 0>>} ELSE {}

\* Variant of no_derive_for: the comparison is made with the first file of
\* the batch.
no_derive_for_First(filename, fl) == IF filename = fl[1] THEN FALSE ELSE TRUE

\* upload_and_delete_files: the no_derive flag it passes for filename.
no_derive_for(filename, fl) == IF filename = Last(fl) THEN FALSE ELSE TRUE

\* ---- run: the decision taken on a listing -------------------------------
\* Variant of should_upload: the size test is strict.
should_upload_Strict(num_files, size) ==
    IF num_files >= max_files THEN TRUE
    ELSE IF size > max_size THEN TRUE
    ELSE FALSE

\* Variant of should_upload: the thresholds are not consulted.
should_upload_Always(num_files, size) == TRUE

should_upload(num_files, size) ==
    IF num_files >= max_files THEN TRUE
    ELSE IF size >= max_size THEN TRUE
    ELSE FALSE

\* ---- initial state ------------------------------------------------------
\* The state before run, in three parts: an empty store, no locals, no
\* history, no second process;
Blank ==
    /\ visible = {}
    /\ pending = {}
    /\ remote = {}
    /\ files = <<>>
    /\ sizes = <<>>
    /\ i = 0
    /\ idx = 0
    /\ err = "none"
    /\ issued = <<>>
    /\ unlinked = {}
    /\ unconfirmed = FALSE
    /\ failedAt = 0
    /\ cycles = 0
    /\ resumed = FALSE
    /\ restarts = 0
    /\ putCount = [f \in AllFiles |-> 0]
    /\ delCount = [f \in AllFiles |-> 0]
    /\ headers = {}
    /\ pc2 = "off"
    /\ files2 = <<>>
    /\ sizes2 = <<>>
    /\ filelist2 = <<>>
    /\ bucket_name2 = NoBucket
    /\ i2 = 0
    /\ idx2 = 0
    /\ issued2 = <<>>
    /\ unlinked2 = {}

\* an empty spool directory;
EmptySpool ==
    /\ spool = <<>>
    /\ produced = 0

\* a process about to list the directory.
AtPoll ==
    /\ pc = "poll"
    /\ filelist = <<>>
    /\ bucket_name = NoBucket

Fresh == Blank /\ EmptySpool /\ AtPoll

Init ==
    /\ max_files \in 1..MaxFilesCfg
    /\ max_size \in (MaxSizeCfg - 1)..MaxSizeCfg
    /\ variant = "s3"
    /\ Fresh

\* ---- environment --------------------------------------------------------
\* The producer completes one more file in the spool directory.
Produce ==
    /\ produced < MaxProduced
    /\ \E sz \in {1, MaxFileSize} :
          spool' = [f \in DOMAIN spool \cup {produced + 1} |->
                       IF f = produced + 1 THEN sz ELSE spool[f]]
    /\ produced' = produced + 1
    /\ UNCHANGED <<config, store, pc, listing, filelist, bucket_name, i, idx,
                   err, cycleObs, cycles, resumed, totals>>
    /\ UNCHANGED <<variant, headers, inst2>>

\* The store finishes creating a bucket: lookups report it from now on.
Converge ==
    /\ \E b \in pending :
          /\ visible' = visible \cup {b}
          /\ pending' = pending \ {b}
    /\ UNCHANGED <<config, spool, produced, remote, pc, listing, filelist,
                   bucket_name, i, idx, err, cycleObs, cycles, resumed, totals>>
    /\ UNCHANGED <<variant, headers, inst2>>

\* ---- format_metadata (Liveweb_Loader) ------------------------------------
\* socket.gethostname().
host == "crawler01"

\* self.metadata, the template of the configuration: attribute -> value, a
\* value being the sequence of its pieces (plain text or a placeholder).
metadata ==
    [mediatype   |-> <<"web">>,
     creator     |-> <<"CRAWLHOST">>,
     description |-> <<"crawl from ", "START_DATE", " to ", "END_DATE">>]

\* datetime.strptime(timestamp[:14], '%Y%m%d%H%M%S').isoformat() of the
\* timestamp get_timestamp returns for the file: the first fourteen digits
\* (the milliseconds of a ctime are cut), with the separators of ISO-8601.
isoformat(file) ==
    "2023-01-01T00:0" \o ToString(file - 1) \o ":"
        \o (IF NameMatches(file) THEN "00" ELSE "30")

RECURSIVE join(_)
join(pieces) ==
    IF pieces = <<>> THEN "" ELSE pieces[1] \o join(Tail(pieces))

\* The three re.sub calls on one value of the template.
substitute(v, start_date, end_date) ==
    join([k \in 1..Len(v) |->
            IF v[k] = "CRAWLHOST" THEN host
            ELSE IF v[k] = "START_DATE" THEN start_date
            ELSE IF v[k] = "END_DATE" THEN end_date
            ELSE v[k]])

\* Variant of format_metadata: the size hint is left out.
format_metadata_NoHint(fl, upload_size) ==
    LET start_date == isoformat(fl[1]) \o " UTC"
        end_date   == isoformat(Last(fl)) \o " UTC"
    IN  {<<"x-archive-meta-" \o k, substitute(metadata[k], start_date, end_date)>> :
            k \in DOMAIN metadata}

format_metadata(fl, upload_size) ==
    LET start_date == isoformat(fl[1]) \o " UTC"
        end_date   == isoformat(Last(fl)) \o " UTC"
    IN  {<<"x-archive-meta-" \o k, substitute(metadata[k], start_date, end_date)>> :
            k \in DOMAIN metadata}
        \cup {<<"x-archive-size-hint", ToString(upload_size)>>}

\* The headers of the batch: the metadata-aware loader computes them once,
\* before the first upload, from the batch and its total size in bytes; the
\* plain loader has none.
batch_headers(fl, sz) ==
    IF variant = "liveweb"
    THEN format_metadata(fl, SeqSum(SubSeq(sz, 1, Len(fl))))
    ELSE {}

\* The headers an upload call sends: those of s3_upload_file together with
\* the headers of the batch.
store_attributes(h) == h \cup headers

\* ---- run ----------------------------------------------------------------
\* The locals of run and of the functions it calls, and what was observed of
\* the current cycle, go back to their initial values.
Forget ==
    /\ files' = <<>>
    /\ sizes' = <<>>
    /\ filelist' = <<>>
    /\ bucket_name' = NoBucket
    /\ i' = 0
    /\ idx' = 0
    /\ issued' = <<>>
    /\ unlinked' = {}
    /\ unconfirmed' = FALSE
    /\ failedAt' = 0
    /\ cycles' = 0
    /\ headers' = {}

\* One pass of the while loop up to the branch: list the directory and
\* decide whether to call upload_and_delete_files.
Poll ==
    /\ pc = "poll"
    /\ LET d == get_dir_contents
           num_files == Len(d.files)
           size == SeqSum(d.sizes)
       IN  /\ files' = d.files
           /\ sizes' = d.sizes
           /\ IF should_upload(num_files, size)
              THEN pc' = "select" /\ cycles' = 1
              ELSE pc' = "sleep" /\ cycles' = 0
    /\ UNCHANGED <<config, spool, produced, store, filelist, bucket_name, i,
                   idx, err, cycleObs, resumed, totals>>
    /\ UNCHANGED <<variant, headers, inst2>>

\* time.sleep(600) at the end of a pass, then the next pass: the locals of
\* the pass that ended are dead from here on.
Sleep ==
    /\ pc = "sleep"
    /\ pc' = "poll"
    /\ Forget
    /\ UNCHANGED <<config, spool, produced, store, err, resumed, totals>>
    /\ UNCHANGED <<variant, inst2>>

\* ---- upload_and_delete_files --------------------------------------------
\* Lines 136-140 up to the first lookup of s3_get_bucket: select the batch,
\* name the bucket, connect and look the bucket up.
Select ==
    /\ pc = "select"
    /\ LET r == make_filelist(files, sizes)
       IN  IF r.raised
           THEN /\ pc' = "dead" /\ err' = "NameError"
                /\ UNCHANGED <<filelist, bucket_name, idx, headers>>
           ELSE IF r.filelist = <<>>
           THEN /\ pc' = "dead" /\ err' = "IndexError"
                /\ filelist' = r.filelist
                /\ UNCHANGED <<bucket_name, idx, headers>>
           ELSE /\ filelist' = r.filelist
                /\ bucket_name' = make_bucket_name(r.filelist)
                /\ headers' = batch_headers(r.filelist, sizes)
                /\ err' = err
                /\ IF lookup(make_bucket_name(r.filelist))
                   THEN pc' = "loop" /\ idx' = 1
                   ELSE pc' = "create" /\ idx' = idx
    /\ UNCHANGED <<config, spool, produced, store, listing, i, cycleObs,
                   cycles, resumed, totals>>
    /\ UNCHANGED <<variant, inst2>>

\* s3_get_bucket: conn.create_bucket returned.
CreateBucketOk ==
    /\ pc = "create"
    /\ pending' = IF bucket_name \in visible THEN pending
                  ELSE pending \cup {bucket_name}
    /\ i' = 0
    /\ pc' = "wait"
    /\ UNCHANGED <<config, spool, produced, visible, remote, listing, filelist,
                   bucket_name, idx, err, cycleObs, cycles, resumed, totals>>
    /\ UNCHANGED <<variant, headers, inst2>>

\* s3_get_bucket: conn.create_bucket raised.
CreateBucketFail ==
    /\ pc = "create"
    /\ pc' = "dead"
    /\ err' = "S3CreateError"
    /\ UNCHANGED <<config, spool, produced, store, listing, filelist,
                   bucket_name, i, idx, cycleObs, cycles, resumed, totals>>
    /\ UNCHANGED <<variant, headers, inst2>>

\* Variant of WaitBucket: the loop has no break; all ten polls are made.
WaitBucket_NoBreak ==
    /\ pc = "wait"
    /\ i < MaxBucketPolls
    /\ i' = i + 1
    /\ IF i + 1 < MaxBucketPolls
       THEN UNCHANGED <<pc, idx, unconfirmed>>
       ELSE pc' = "loop" /\ idx' = 1 /\ unconfirmed' = ~lookup(bucket_name)
    /\ UNCHANGED <<config, spool, produced, store, listing, filelist,
                   bucket_name, err, issued, unlinked, failedAt, cycles,
                   resumed, totals>>
    /\ UNCHANGED <<variant, headers, inst2>>

\* s3_get_bucket: one pass of the while i<10 loop. A pass that sees the
\* bucket breaks out; the tenth pass that does not see it ends the loop as
\* well. Either way s3_get_bucket returns the bucket object of create_bucket
\* and the for loop of upload_and_delete_files starts.
WaitBucket ==
    /\ pc = "wait"
    /\ i < MaxBucketPolls
    /\ IF lookup(bucket_name)
       THEN /\ pc' = "loop" /\ idx' = 1
            /\ UNCHANGED <<i, unconfirmed>>
       ELSE /\ i' = i + 1
            /\ IF i + 1 < MaxBucketPolls
               THEN UNCHANGED <<pc, idx, unconfirmed>>
               ELSE pc' = "loop" /\ idx' = 1 /\ unconfirmed' = TRUE
    /\ UNCHANGED <<config, spool, produced, store, listing, filelist,
                   bucket_name, err, issued, unlinked, failedAt, cycles,
                   resumed, totals>>
    /\ UNCHANGED <<variant, headers, inst2>>

\* Head of the for loop: the batch is exhausted (the function returns and
\* run sleeps), or bucket.get_key finds the file (continue), or it does not
\* (go on to the upload).
NextFile ==
    /\ pc = "loop"
    /\ IF idx > Len(filelist)
       THEN /\ pc' = "sleep"
            /\ resumed' = FALSE
            /\ idx' = idx
       ELSE IF get_key(bucket_name, filelist[idx])
       THEN /\ pc' = "loop"
            /\ idx' = idx + 1
            /\ resumed' = resumed
       ELSE /\ pc' = "upload"
            /\ idx' = idx
            /\ resumed' = resumed
    /\ UNCHANGED <<config, spool, produced, store, listing, filelist,
                   bucket_name, i, err, cycleObs, cycles, totals>>
    /\ UNCHANGED <<variant, headers, inst2>>

\* The upload call of the current file, as the history records it: the
\* file, the headers sent (those of s3_upload_file and those of the batch),
\* whether the call returned, and whether some bucket of the store held the
\* file already when the call was made.
UploadCall(ok) ==
    [file    |-> filelist[idx],
     headers |-> store_attributes(
                    s3_upload_headers(no_derive_for(filelist[idx], filelist))),
     ok      |-> ok,
     stored  |-> \E o \in remote : o[2] = filelist[idx]]

\* Variant of UploadOk: the call returns without the store having taken the
\* object (the response of the PUT is not looked at).
UploadOk_Unverified ==
    /\ pc = "upload"
    /\ filelist[idx] \in DOMAIN spool
    /\ issued' = Append(issued, UploadCall(TRUE))
    /\ putCount' = [putCount EXCEPT ![filelist[idx]] = @ + 1]
    /\ pc' = "unlink"
    /\ UNCHANGED <<config, spool, produced, store, listing, filelist,
                   bucket_name, i, idx, err, unlinked, unconfirmed, failedAt,
                   cycles, resumed, restarts, delCount>>
    /\ UNCHANGED <<variant, headers, inst2>>

\* s3_upload_file returned: the store holds the object.
UploadOk ==
    /\ pc = "upload"
    /\ bucket_name \in visible
    /\ filelist[idx] \in DOMAIN spool
    /\ remote' = remote \cup {<<bucket_name, filelist[idx]>>}
    /\ issued' = Append(issued, UploadCall(TRUE))
    /\ putCount' = [putCount EXCEPT ![filelist[idx]] = @ + 1]
    /\ pc' = "unlink"
    /\ UNCHANGED <<config, spool, produced, visible, pending, listing, filelist,
                   bucket_name, i, idx, err, unlinked, unconfirmed, failedAt,
                   cycles, resumed, restarts, delCount>>
    /\ UNCHANGED <<variant, headers, inst2>>

\* Variant of UploadFail: the exception is swallowed and the code goes on to
\* delete the local copy.
UploadFail_Swallowed ==
    /\ pc = "upload"
    /\ issued' = Append(issued, UploadCall(FALSE))
    /\ failedAt' = idx
    /\ pc' = "unlink"
    /\ UNCHANGED <<config, spool, produced, store, listing, filelist,
                   bucket_name, i, idx, err, unlinked, unconfirmed, cycles,
                   resumed, totals>>
    /\ UNCHANGED <<variant, headers, inst2>>

\* Variant of UploadFail: the exception is logged and the for loop continues
\* with the next file.
UploadFail_Continue ==
    /\ pc = "upload"
    /\ issued' = Append(issued, UploadCall(FALSE))
    /\ failedAt' = idx
    /\ pc' = "loop"
    /\ idx' = idx + 1
    /\ UNCHANGED <<config, spool, produced, store, listing, filelist,
                   bucket_name, i, err, unlinked, unconfirmed, cycles,
                   resumed, totals>>
    /\ UNCHANGED <<variant, headers, inst2>>

\* s3_upload_file raised (network, auth, quota, no such bucket): nothing
\* catches it, the process ends.
UploadFail ==
    /\ pc = "upload"
    /\ issued' = Append(issued, UploadCall(FALSE))
    /\ failedAt' = idx
    /\ pc' = "dead"
    /\ err' = "S3ResponseError"
    /\ UNCHANGED <<config, spool, produced, store, listing, filelist,
                   bucket_name, i, idx, unlinked, unconfirmed, cycles, resumed,
                   totals>>
    /\ UNCHANGED <<variant, headers, inst2>>

\* Variant of UnlinkOk: the file deleted is the one at the loop's position in
\* a fresh listing of the directory, not in the batch.
UnlinkOk_Relist ==
    /\ pc = "unlink"
    /\ idx <= Len(get_dir_contents.files)
    /\ LET victim == get_dir_contents.files[idx]
       IN  /\ spool' = [f \in DOMAIN spool \ {victim} |-> spool[f]]
           /\ unlinked' = unlinked \cup {victim}
           /\ delCount' = [delCount EXCEPT ![victim] = @ + 1]
    /\ idx' = idx + 1
    /\ pc' = "loop"
    /\ UNCHANGED <<config, produced, store, listing, filelist, bucket_name, i,
                   err, issued, unconfirmed, failedAt, cycles, resumed,
                   restarts, putCount>>
    /\ UNCHANGED <<variant, headers, inst2>>

\* os.unlink removed the local copy; the for loop moves on.
UnlinkOk ==
    /\ pc = "unlink"
    /\ filelist[idx] \in DOMAIN spool
    /\ spool' = [f \in DOMAIN spool \ {filelist[idx]} |-> spool[f]]
    /\ unlinked' = unlinked \cup {filelist[idx]}
    /\ delCount' = [delCount EXCEPT ![filelist[idx]] = @ + 1]
    /\ idx' = idx + 1
    /\ pc' = "loop"
    /\ UNCHANGED <<config, produced, store, listing, filelist, bucket_name, i,
                   err, issued, unconfirmed, failedAt, cycles, resumed,
                   restarts, putCount>>
    /\ UNCHANGED <<variant, headers, inst2>>

\* os.unlink raised OSError (the file cannot be removed): nothing catches
\* it, the process ends.
UnlinkFail ==
    /\ pc = "unlink"
    /\ pc' = "dead"
    /\ err' = "OSError"
    /\ UNCHANGED <<config, spool, produced, store, listing, filelist,
                   bucket_name, i, idx, cycleObs, cycles, resumed, totals>>
    /\ UNCHANGED <<variant, headers, inst2>>

\* ---- process lifecycle --------------------------------------------------
InCycle == pc \in {"select", "create", "wait", "loop", "upload", "unlink"}

\* The process is killed in the middle of a cycle: its memory is gone.
Crash ==
    /\ InCycle
    /\ pc' = "dead"
    /\ err' = "killed"
    /\ Forget
    /\ UNCHANGED <<config, spool, produced, store, resumed, totals>>
    /\ UNCHANGED <<variant, inst2>>

\* The supervisor starts the process again: run starts over.
Restart ==
    /\ pc = "dead"
    /\ restarts < MaxRestarts
    /\ pc' = "poll"
    /\ err' = "none"
    /\ resumed' = TRUE
    /\ restarts' = restarts + 1
    /\ Forget
    /\ UNCHANGED <<config, spool, produced, store, putCount, delCount>>
    /\ UNCHANGED <<variant, inst2>>

Next ==
    \/ Produce
    \/ Converge
    \/ Poll
    \/ Sleep
    \/ Select
    \/ CreateBucketOk
    \/ CreateBucketFail
    \/ WaitBucket
    \/ NextFile
    \/ UploadOk
    \/ UploadFail
    \/ UnlinkOk
    \/ UnlinkFail
    \/ Crash
    \/ Restart

Spec == Init /\ [][Next]_vars

\* ---- a second process ----------------------------------------------------
\* The same program run a second time on the same directory, prefix and
\* store: the steps of run and upload_and_delete_files on its own locals.
\* When it ends, or sleeps, its locals are gone.
Forget2 ==
    /\ files2' = <<>>
    /\ sizes2' = <<>>
    /\ filelist2' = <<>>
    /\ bucket_name2' = NoBucket
    /\ i2' = 0
    /\ idx2' = 0
    /\ issued2' = <<>>
    /\ unlinked2' = {}

Poll2 ==
    /\ pc2 = "poll"
    /\ LET d == get_dir_contents
       IN  /\ files2' = d.files
           /\ sizes2' = d.sizes
           /\ IF should_upload(Len(d.files), SeqSum(d.sizes))
              THEN pc2' = "select"
              ELSE pc2' = "sleep"
    /\ UNCHANGED <<filelist2, bucket_name2, i2, idx2, issued2, unlinked2>>
    /\ UNCHANGED <<config, variant, spool, produced, store, proc1, totals>>

Sleep2 ==
    /\ pc2 = "sleep"
    /\ pc2' = "poll"
    /\ Forget2
    /\ UNCHANGED <<config, variant, spool, produced, store, proc1, totals>>

Select2 ==
    /\ pc2 = "select"
    /\ LET r == make_filelist(files2, sizes2)
       IN  IF r.raised \/ r.filelist = <<>>
           THEN pc2' = "dead" /\ Forget2
           ELSE /\ filelist2' = r.filelist
                /\ bucket_name2' = make_bucket_name(r.filelist)
                /\ IF lookup(make_bucket_name(r.filelist))
                   THEN pc2' = "loop" /\ idx2' = 1
                   ELSE pc2' = "create" /\ idx2' = idx2
                /\ UNCHANGED <<files2, sizes2, i2, issued2, unlinked2>>
    /\ UNCHANGED <<config, variant, spool, produced, store, proc1, totals>>

CreateBucketOk2 ==
    /\ pc2 = "create"
    /\ pending' = IF bucket_name2 \in visible THEN pending
                  ELSE pending \cup {bucket_name2}
    /\ i2' = 0
    /\ pc2' = "wait"
    /\ UNCHANGED <<files2, sizes2, filelist2, bucket_name2, idx2, issued2,
                   unlinked2>>
    /\ UNCHANGED <<config, variant, spool, produced, visible, remote, proc1,
                   totals>>

WaitBucket2 ==
    /\ pc2 = "wait"
    /\ i2 < MaxBucketPolls
    /\ IF lookup(bucket_name2)
       THEN pc2' = "loop" /\ idx2' = 1 /\ i2' = i2
       ELSE /\ i2' = i2 + 1
            /\ IF i2 + 1 < MaxBucketPolls
               THEN UNCHANGED <<pc2, idx2>>
               ELSE pc2' = "loop" /\ idx2' = 1
    /\ UNCHANGED <<files2, sizes2, filelist2, bucket_name2, issued2, unlinked2>>
    /\ UNCHANGED <<config, variant, spool, produced, store, proc1, totals>>

NextFile2 ==
    /\ pc2 = "loop"
    /\ IF idx2 > Len(filelist2)
       THEN pc2' = "sleep" /\ idx2' = idx2
       ELSE IF get_key(bucket_name2, filelist2[idx2])
       THEN pc2' = "loop" /\ idx2' = idx2 + 1
       ELSE pc2' = "upload" /\ idx2' = idx2
    /\ UNCHANGED <<files2, sizes2, filelist2, bucket_name2, i2, issued2,
                   unlinked2>>
    /\ UNCHANGED <<config, variant, spool, produced, store, proc1, totals>>

UploadCall2(ok) == [file |-> filelist2[idx2], ok |-> ok]

UploadOk2 ==
    /\ pc2 = "upload"
    /\ bucket_name2 \in visible
    /\ filelist2[idx2] \in DOMAIN spool
    /\ remote' = remote \cup {<<bucket_name2, filelist2[idx2]>>}
    /\ issued2' = Append(issued2, UploadCall2(TRUE))
    /\ pc2' = "unlink"
    /\ UNCHANGED <<files2, sizes2, filelist2, bucket_name2, i2, idx2, unlinked2>>
    /\ UNCHANGED <<config, variant, spool, produced, visible, pending, proc1,
                   totals>>

\* s3_upload_file raised in the second process (the store refused, or the
\* file is no longer in the directory): the process ends.
UploadFail2 ==
    /\ pc2 = "upload"
    /\ pc2' = "dead"
    /\ Forget2
    /\ UNCHANGED <<config, variant, spool, produced, store, proc1, totals>>

UnlinkOk2 ==
    /\ pc2 = "unlink"
    /\ filelist2[idx2] \in DOMAIN spool
    /\ spool' = [f \in DOMAIN spool \ {filelist2[idx2]} |-> spool[f]]
    /\ unlinked2' = unlinked2 \cup {filelist2[idx2]}
    /\ idx2' = idx2 + 1
    /\ pc2' = "loop"
    /\ UNCHANGED <<files2, sizes2, filelist2, bucket_name2, i2, issued2>>
    /\ UNCHANGED <<config, variant, produced, store, proc1, totals>>

\* os.unlink raised in the second process (the file is gone already, or
\* cannot be removed): the process ends.
UnlinkFail2 ==
    /\ pc2 = "unlink"
    /\ pc2' = "dead"
    /\ Forget2
    /\ UNCHANGED <<config, variant, spool, produced, store, proc1, totals>>

Second ==
    \/ Poll2
    \/ Sleep2
    \/ Select2
    \/ CreateBucketOk2
    \/ WaitBucket2
    \/ NextFile2
    \/ UploadOk2
    \/ UploadFail2
    \/ UnlinkOk2
    \/ UnlinkFail2

\* Two processes started together, with the same configuration, on a spool
\* the producer has filled.
InitTwo ==
    /\ max_files = 2
    /\ max_size = MaxSizeCfg
    /\ variant = "s3"
    /\ \E n \in 1..MaxProduced :
          /\ spool = [f \in 1..n |-> 1]
          /\ produced = n
    /\ AtPoll
    /\ visible = {} /\ pending = {} /\ remote = {}
    /\ files = <<>> /\ sizes = <<>> /\ i = 0 /\ idx = 0 /\ err = "none"
    /\ issued = <<>> /\ unlinked = {} /\ unconfirmed = FALSE /\ failedAt = 0
    /\ cycles = 0 /\ resumed = FALSE /\ restarts = 0
    /\ putCount = [f \in AllFiles |-> 0]
    /\ delCount = [f \in AllFiles |-> 0]
    /\ headers = {}
    /\ pc2 = "poll"
    /\ files2 = <<>> /\ sizes2 = <<>> /\ filelist2 = <<>>
    /\ bucket_name2 = NoBucket /\ i2 = 0 /\ idx2 = 0
    /\ issued2 = <<>> /\ unlinked2 = {}

NextTwo ==
    \/ Converge
    \/ Poll
    \/ Sleep
    \/ Select
    \/ CreateBucketOk
    \/ WaitBucket
    \/ NextFile
    \/ UploadOk
    \/ UploadFail
    \/ UnlinkOk
    \/ UnlinkFail
    \/ Second

SpecTwo == InitTwo /\ [][NextTwo]_vars

\* The metadata-aware loader in place of the plain one, as liveweb_loader.py
\* constructs it (maxfiles=2).
InitLiveweb ==
    /\ max_files = 2
    /\ max_size \in (MaxSizeCfg - 1)..MaxSizeCfg
    /\ variant = "liveweb"
    /\ Fresh

SpecLiveweb == InitLiveweb /\ [][Next]_vars

\* The loader with the default thresholds, started on a spool that holds
\* two files of 500 MiB and 600 MiB.
default_max_files == 10
default_max_size == 1073741824

InitExample ==
    /\ max_files = default_max_files
    /\ max_size = default_max_size
    /\ variant = "s3"
    /\ spool = [f \in {1, 2} |-> IF f = 1 THEN 524288000 ELSE 629145600]
    /\ produced = 2
    /\ Blank
    /\ AtPoll

SpecExample == InitExample /\ [][Next]_vars

\* The loader on a spool the producer has finished with, against a store
\* that never fails: every create_bucket and every upload returns, and
\* every local deletion succeeds. The process may still be killed and
\* started again.
InitProgress ==
    /\ max_files \in 1..MaxFilesCfg
    /\ max_size \in (MaxSizeCfg - 1)..MaxSizeCfg
    /\ variant = "s3"
    /\ \E n \in 1..MaxProduced :
          /\ spool \in [1..n -> {1, MaxFileSize}]
          /\ produced = n
    /\ Blank
    /\ AtPoll

NextProgress ==
    \/ Converge
    \/ Poll
    \/ Sleep
    \/ Select
    \/ CreateBucketOk
    \/ WaitBucket
    \/ NextFile
    \/ UploadOk
    \/ UnlinkOk
    \/ Crash
    \/ Restart

SpecProgress == InitProgress /\ [][NextProgress]_vars

\* make_bucket_name on its own, applied to any batch (a non-empty list of
\* names in ascending order) by either class.
MaxNamed == 6

Batches == {SortedSeq(S) : S \in (SUBSET (1..MaxNamed)) \ {{}}}

InitNamer ==
    /\ max_files = MaxNamed
    /\ max_size = 1
    /\ variant \in {"s3", "liveweb"}
    /\ EmptySpool
    /\ Blank
    /\ pc = "name"
    /\ filelist \in Batches
    /\ bucket_name = NoBucket

Name ==
    /\ pc = "name"
    /\ bucket_name' = make_bucket_name(filelist)
    /\ pc' = "named"
    /\ UNCHANGED <<config, spool, produced, store, listing, filelist, i, idx,
                   err, cycleObs, cycles, resumed, totals>>
    /\ UNCHANGED <<variant, headers, inst2>>

SpecNamer == InitNamer /\ [][Name]_vars


\* ========================================================================
\* Properties
\* ========================================================================
Confirmed == {issued[k].file : k \in {n \in 1..Len(issued) : issued[n].ok}}

QueuesDerive(call) == <<"x-archive-queue-derive", 0>> \notin call.headers

\* C1: a local file is deleted only after the upload call for that file,
\* issued in the same cycle, has returned successfully: every step that
\* removes a file from the spool removes a file whose upload the current
\* cycle has confirmed, and no file was ever deleted without a confirmed
\* upload.
C1_DeleteOnlyAfterConfirmedUpload ==
    [][ /\ \A f \in DOMAIN spool \ DOMAIN spool' : f \in Confirmed
        /\ \A f \in AllFiles : delCount'[f] > 0 => putCount'[f] > 0 ]_vars

C1_Witness == pc = "loop" /\ unlinked # {} /\ unlinked \subseteq Confirmed


\* C2: a batch file that the resolved bucket already holds is skipped: the
\* step of the for loop that finds it issues no upload, leaves the local
\* copy, does not end the process and moves on to the next batch file.
C2_PresentFileSkipped ==
    [][ (/\ NextFile
         /\ idx <= Len(filelist)
         /\ <<bucket_name, filelist[idx]>> \in remote)
        => (/\ pc' = "loop"
            /\ idx' = idx + 1
            /\ issued' = issued
            /\ spool' = spool
            /\ remote' = remote
            /\ err' = "none") ]_vars

C2_Witness ==
    /\ pc = "loop"
    /\ idx > 1
    /\ <<bucket_name, filelist[idx - 1]>> \in remote
    /\ idx <= Len(filelist)
    /\ filelist[idx - 1] \in DOMAIN spool
    /\ filelist[idx - 1] \notin {issued[k].file : k \in 1..Len(issued)}

\* C7: once the upload of the batch file at position failedAt has failed,
\* the cycle is over: the process has stopped, that file and every later
\* batch file are still in the spool, the failed call is the last upload
\* call of the cycle, no later batch file was deleted, and the files the
\* cycle uploaded before are still in the bucket.
C7_UploadFailureAbandonsBatch ==
    failedAt # 0 =>
        /\ pc = "dead"
        /\ \A j \in failedAt..Len(filelist) : filelist[j] \in DOMAIN spool
        /\ Len(issued) >= 1
        /\ Last(issued).file = filelist[failedAt]
        /\ ~Last(issued).ok
        /\ \A k \in 1..(Len(issued) - 1) :
              /\ issued[k].ok
              /\ issued[k].file \in {filelist[j] : j \in 1..(failedAt - 1)}
              /\ <<bucket_name, issued[k].file>> \in remote
        /\ unlinked \subseteq {filelist[j] : j \in 1..(failedAt - 1)}

C7_Witness ==
    /\ failedAt = 2
    /\ Len(filelist) = 3
    /\ Len(issued) = 2
    /\ issued[1].ok
    /\ <<bucket_name, filelist[1]>> \in remote
    /\ filelist[3] \in DOMAIN spool

\* C9: an upload call queues the derive exactly when its file is the last
\* file of the batch, and a call that queues the derive is the last upload
\* call of its cycle (so at most one call per cycle queues it).
C9_DeriveOnlyWithLastFile ==
    \A k \in 1..Len(issued) :
        /\ QueuesDerive(issued[k]) <=> issued[k].file = Last(filelist)
        /\ QueuesDerive(issued[k]) => k = Len(issued)

C9_Witness ==
    /\ Len(issued) >= 2
    /\ ~QueuesDerive(issued[1])
    /\ QueuesDerive(Last(issued))
    /\ Last(issued).ok

\* C10: a poll starts a cycle exactly when the spool holds at least
\* max_files files or at least max_size bytes; a cycle starts only from a
\* poll and the loop sleeps after it (one cycle per poll); after a poll that
\* started no cycle the process issues no upload, creates no bucket and
\* deletes no file before it polls again.
SpoolBytes == SeqSum(get_dir_contents.sizes)

C10_PollDecision ==
    [][ /\ (pc = "poll" /\ pc' # "poll") =>
              IF Cardinality(DOMAIN spool) >= max_files \/ SpoolBytes >= max_size
              THEN pc' = "select" /\ cycles' = 1
              ELSE pc' = "sleep" /\ cycles' = 0
        /\ pc' = "select" => pc \in {"poll", "select"}
        /\ pc = "sleep" =>
              /\ pc' \in {"sleep", "poll"}
              /\ remote' = remote
              /\ DOMAIN spool \subseteq DOMAIN spool'
              /\ pending \subseteq pending' \cup visible' ]_vars

C10_Witness ==
    /\ pc = "select"
    /\ cycles = 1
    /\ Len(files) < max_files
    /\ SeqSum(sizes) >= max_size


\* C3: in a run that follows a run which died inside a cycle, every upload
\* call is for a file that no bucket of the store held when the call was
\* made, and over all runs no file is deleted more than once.
C3_SecondRunUploadsOnlyAbsentFiles ==
    /\ resumed => \A k \in 1..Len(issued) : ~issued[k].stored
    /\ \A f \in AllFiles : delCount[f] <= 1

\* C4: after an abandoned cycle, a file still in the spool whose upload was
\* confirmed is skipped by the existence check (the for loop never reaches
\* the upload of such a file), so no file has two confirmed uploads.
C4_ConfirmedFileNeverUploadedAgain ==
    /\ pc = "upload" => putCount[filelist[idx]] = 0
    /\ \A f \in AllFiles : putCount[f] <= 1

\* C5: when the created bucket was absent in all polls of s3_get_bucket, the
\* cycle is aborted: the process has stopped on that failure, no upload call
\* was issued and no local file was deleted in the cycle.
C5_UnconfirmedBucketAbortsCycle ==
    unconfirmed =>
        /\ pc = "dead"
        /\ issued = <<>>
        /\ unlinked = {}

\* C6: the batch make_filelist returns has at most max_files files, and
\* either its files sum to less than max_size bytes or it is a single file.
BatchBytes == SeqSum(SubSeq(sizes, 1, Len(filelist)))

C6_BatchWithinThresholds ==
    filelist # <<>> =>
        /\ Len(filelist) <= max_files
        /\ BatchBytes < max_size \/ Len(filelist) = 1

\* C8: a failed deletion of the local copy after a confirmed upload does
\* not end the cycle: the process is never stopped by the error of
\* os.unlink.
C8_DeleteFailureNotFatal == ~(pc = "dead" /\ err = "OSError")


\* C11: with max_files >= 1 and max_size >= 1 every cycle the loop starts
\* selects a non-empty batch (make_bucket_name never indexes an empty list),
\* and a listing of one file of at least max_size bytes gives the batch of
\* exactly that file.
BatchSelected == pc \in {"create", "wait", "loop", "upload", "unlink"}

C11_BatchNeverEmpty ==
    /\ max_files >= 1 /\ max_size >= 1
    /\ err \notin {"IndexError", "NameError"}
    /\ BatchSelected => filelist # <<>>
    /\ (BatchSelected /\ Len(files) = 1 /\ sizes[1] >= max_size)
          => filelist = files

C11_Witness ==
    /\ pc = "loop"
    /\ max_files > 1
    /\ Len(files) = 1
    /\ sizes[1] >= max_size
    /\ filelist = files

\* C15: bucket resolution is bounded. A first lookup that finds the bucket
\* leads to the for loop with no create request; otherwise the create
\* request is made once (the cycle never comes back to it) and is followed
\* by at most MaxBucketPolls polls, each counted poll having found the
\* bucket absent, the polling ending at the first poll that finds it or
\* with the last poll.
C15_BucketResolutionBounded ==
    [][ /\ (pc = "select" /\ pc' = "loop") =>
               bucket_name' \in visible /\ pending' = pending
        /\ (pc = "select" /\ pc' = "create") => bucket_name' \notin visible
        /\ pc' = "create" => pc \in {"select", "create"}
        /\ (pc = "create" /\ pc' # "create") => pc' \in {"wait", "dead"}
        /\ pc' = "wait" => pc \in {"create", "wait"} /\ i' < MaxBucketPolls
        /\ (pc = "wait" /\ i' # i /\ pc' # "dead") =>
               i' = i + 1 /\ bucket_name \notin visible
        /\ (pc = "wait" /\ bucket_name \in visible /\ <<pc, i>>' # <<pc, i>>)
               => (pc' = "loop" /\ i' = i) \/ pc' = "dead"
        /\ (pc = "wait" /\ pc' = "loop") =>
               bucket_name \in visible \/ i' = MaxBucketPolls ]_vars

C15_Witness ==
    /\ pc = "loop"
    /\ i \in 1..(MaxBucketPolls - 1)
    /\ bucket_name \in visible
    /\ ~unconfirmed

\* C16: the listing is in ascending order, the batch is a prefix of it, and
\* the for loop takes the batch files in that order, one at a time: the
\* upload calls of a cycle are for batch files at ascending positions up to
\* the loop's position, and the call that precedes a deletion is for the
\* file at the loop's position.
PosInBatch(f) == CHOOSE k \in 1..Len(filelist) : filelist[k] = f

C16_BatchIsSortedPrefix ==
    /\ \A k \in 1..(Len(files) - 1) : files[k] < files[k + 1]
    /\ Len(filelist) <= Len(files)
    /\ \A k \in 1..Len(filelist) : filelist[k] = files[k]
    /\ \A k \in 1..Len(issued) :
          /\ issued[k].file \in Range(filelist)
          /\ PosInBatch(issued[k].file) <= idx
          /\ \A l \in 1..(k - 1) :
                PosInBatch(issued[l].file) < PosInBatch(issued[k].file)
    /\ pc \in {"upload", "unlink"} => idx \in 1..Len(filelist)
    /\ pc = "unlink" => Last(issued).file = filelist[idx]

C16_Witness ==
    /\ Len(filelist) >= 2
    /\ Len(filelist) < Len(files)
    /\ Len(issued) >= 2
    /\ pc = "unlink"

\* C17: a cycle uploads and deletes only files of its batch, which is taken
\* from the listing made when the cycle started: files listed but not in
\* the batch, and files the producer adds while the cycle runs, are neither
\* uploaded nor deleted by it.
C17_OnlyBatchFilesTouched ==
    [][ /\ Range(filelist') \subseteq Range(files')
        /\ \A k \in 1..Len(issued') : issued'[k].file \in Range(filelist')
        /\ unlinked' \subseteq Range(filelist')
        /\ \A f \in DOMAIN spool \ DOMAIN spool' : f \in Range(filelist) ]_vars

C17_Witness ==
    /\ pc = "loop"
    /\ unlinked # {}
    /\ \E f \in DOMAIN spool : f \notin Range(files)
    /\ \E f \in DOMAIN spool : f \in Range(files) /\ f \notin Range(filelist)

\* C18: no file is lost: every file the producer has placed in the spool is
\* still in the spool or is an object of some bucket of the store.
C18_NoDataLoss ==
    \A f \in 1..produced :
        f \in DOMAIN spool \/ \E o \in remote : o[2] = f

C18_Witness ==
    /\ restarts >= 1
    /\ \E f \in 1..produced : f \notin DOMAIN spool
    /\ \E f \in DOMAIN spool : \E o \in remote : o[2] = f

ExampleListed ==
    /\ files = <<1, 2>>
    /\ sizes = <<524288000, 629145600>>

C12_ExampleBatchAndName ==
    [][ /\ (pc = "poll" /\ DOMAIN spool = {1, 2} /\ pc' # "poll") =>
              pc' = "select" /\ cycles' = 1 /\ ExampleListed'
        /\ (pc = "select" /\ ExampleListed /\ pc' # "select") =>
              \/ pc' = "dead" /\ err' = "killed"
              \/ /\ pc' \in {"create", "loop"}
                 /\ filelist' = <<1, 2>>
                 /\ bucket_name' = "myprefix-20230101000000-00001-20230101000100"
        /\ (BatchSelected /\ ExampleListed) =>
              /\ filelist = <<1, 2>>
              /\ bucket_name = "myprefix-20230101000000-00001-20230101000100"
      ]_vars

C12_Witness ==
    /\ max_files = 10
    /\ max_size = 1073741824
    /\ ExampleListed
    /\ pc = "upload"
    /\ idx = 2
    /\ filelist = <<1, 2>>
    /\ bucket_name = "myprefix-20230101000000-00001-20230101000100"

\* C13: for a batch whose first and last file have well-formed names the
\* name make_bucket_name returns is prefix-firstTimestamp-firstSeqNum-
\* lastTimestamp, and it is the name of every batch with that first and that
\* last file, whatever lies between them.
NameOf(first, last) ==
    upload_prefix \o "-" \o Timestamp(first) \o "-" \o SeqNum(first) \o "-"
        \o Timestamp(last)

C13_NameFromFirstAndLast ==
    (pc = "named" /\ NameMatches(filelist[1]) /\ NameMatches(Last(filelist))) =>
        /\ bucket_name = NameOf(filelist[1], Last(filelist))
        /\ \A g \in Batches :
              (g[1] = filelist[1] /\ Last(g) = Last(filelist)) =>
                  make_bucket_name(g) = bucket_name

C13_Witness ==
    /\ pc = "named"
    /\ filelist = <<1, 3, 5, 6>>
    /\ bucket_name = "myprefix-20230101000000-00001-20230101000500"
    /\ make_bucket_name(<<1, 2, 6>>) = bucket_name

\* C19 as stated: with a store that never fails and a producer that has
\* stopped, every cycle the loop completes has removed at least one file
\* from the spool.
C19_EveryCycleRemovesAFile ==
    (pc = "sleep" /\ cycles = 1) => unlinked # {}

\* C19, amended: with a store that never fails and a producer that has
\* stopped, a cycle the loop completes leaves every file of its batch in
\* its bucket; it has removed from the spool exactly the batch files it
\* uploaded itself, and has left in the spool those the bucket held already
\* (uploaded by a run that was killed before the deletion). A cycle that
\* removed no file leaves the spool as the poll found it, at or above a
\* threshold: the next poll selects the same batch again.
C19_CycleRemovesWhatItUploads ==
    (pc = "sleep" /\ cycles = 1) =>
        /\ filelist # <<>>
        /\ \A f \in Range(filelist) :
              /\ <<bucket_name, f>> \in remote
              /\ f \in unlinked <=> f \in Confirmed
              /\ f \in DOMAIN spool <=> f \notin Confirmed
        /\ unlinked = {} =>
              /\ get_dir_contents.files = files
              /\ get_dir_contents.sizes = sizes
              /\ Len(files) >= max_files \/ SeqSum(sizes) >= max_size

C19_Witness ==
    /\ pc = "sleep"
    /\ cycles = 1
    /\ filelist = <<1, 2>>
    /\ unlinked = {2}
    /\ 1 \in DOMAIN spool
    /\ restarts = 1

\* C20: with two processes running the loader on the same directory and
\* store, under every interleaving of their steps, a file leaves the spool
\* only by the os.unlink of a process whose own upload of that file had
\* returned in its current cycle, and every file the producer completed is
\* in the spool or in some bucket of the store.
Confirmed2 == {issued2[k].file : k \in {n \in 1..Len(issued2) : issued2[n].ok}}

C20_DeleteOnlyByConfirmedUploader ==
    [][ /\ \A f \in DOMAIN spool \ DOMAIN spool' :
              \/ f \in unlinked' \ unlinked /\ f \in Confirmed
              \/ f \in unlinked2' \ unlinked2 /\ f \in Confirmed2
        /\ \A f \in 1..produced' :
              f \in DOMAIN spool' \/ \E o \in remote' : o[2] = f
      ]_vars

C20_Witness ==
    /\ filelist = <<1, 2>>
    /\ filelist2 = <<1, 2>>
    /\ bucket_name2 = bucket_name
    /\ 1 \in unlinked
    /\ 1 \in Confirmed2
    /\ pc2 = "unlink"
    /\ idx2 = 1
    /\ 1 \notin DOMAIN spool

====
